---------------------------- MODULE Spec2Model ----------------------------
(***************************************************************************)
(* Host side of the GuC command channel (drivers/gpu/drm/i915/intel_guc.c): *)
(* the MMIO mailbox exchange intel_guc_send_mmio, the parameter block       *)
(* writer intel_guc_init_params, the GuC-to-host event handler and the      *)
(* GGTT allocation helpers.                                                 *)
(*                                                                          *)
(* A 32-bit register word is modelled as the set of its set bit positions   *)
(* (a subset of 0..31): OR is union, AND is intersection, AND-NOT is set    *)
(* difference, and a shift moves the positions and drops those >= 32.       *)
(***************************************************************************)
EXTENDS Integers, Sequences, FiniteSets, TLC

VARIABLES
    scratch,        \* SOFT_SCRATCH(0..15): register index -> word
    doorbell,       \* GUC_SEND_INTERRUPT trigger written and not yet consumed by the GuC
    send_mutex,     \* guc->send_mutex: the owning context, or NoOwner
    fw,             \* forcewake references held, per holder
    pc,             \* per context: position inside intel_guc_send_mmio
    act,            \* per context: the action[] array of the call
    idx,            \* per context: the local i of the write loop
    ret,            \* per context: the local ret
    status,         \* per context: the local status
    elapsed,        \* per context: ms waited in __intel_wait_for_register_fw
    nwr,            \* per context: how often the call wrote each action word
    nring,          \* per context: how often the call rang the doorbell
    strace,         \* per context: the register accesses and the doorbell of the call, in order
    wr,             \* the scratch register write made by the last step, if any
    resp_at,        \* ms after the doorbell of the call in flight at which the ready
                    \* bits came to stand in mailbox register 0; -1 while they do not
    resp_for,       \* the context whose doorbell the GuC answered by the word in
                    \* mailbox register 0, or NoOwner
    ppc,            \* position inside intel_guc_init_params
    pidx,           \* the local i of intel_guc_init_params
    ptrace,         \* what intel_guc_init_params has done so far, in order
    cfg,            \* static facts read by intel_guc_init_params
    irq,            \* GuC-to-host interrupt raised and not yet dispatched
    hpc,            \* position inside intel_guc_to_host_event_handler
    msg,            \* the handler's local msg
    flush,          \* the handler's local flush
    flush_work,     \* guc->log.runtime.flush_work is queued on flush_wq
    flush_interrupt_count,  \* guc->log.flush_interrupt_count
    hlog,           \* what the current (or last) handler run did, in order
    nsignals,       \* events the GuC has signalled so far
    owed,           \* a handled event was signalled and no queue_work followed yet
    wopcm,          \* i915->wopcm: size and guc.base
    ggtt_pin_bias,  \* guc->ggtt_pin_bias
    bias_init,      \* intel_guc_init_ggtt_pin_bias has run
    objs,           \* the GEM objects created so far, with their GGTT vma
    shared_data,    \* guc->shared_data: an object id, or NULL
    shared_data_vaddr,  \* guc->shared_data_vaddr is set
    last,           \* the outcome of the last allocation call
    log_vma,        \* guc->log.vma: an object id, or NULL
    ads_vma,        \* guc->ads_vma: an object id, or NULL
    ggtt_guc,       \* i915_ggtt_enable_guc is in effect
    fault,          \* what a dereference of a NULL pointer has led to, if any
    lpc,            \* position inside intel_guc_init or intel_guc_fini
    lret,           \* the local ret of intel_guc_init
    ltrace          \* the function running (or run last), then its calls with their results

vars == <<scratch, doorbell, send_mutex, fw, pc, act, idx, ret, status,
          elapsed, nwr, nring, strace, wr, resp_at, resp_for, ppc, pidx, ptrace, cfg,
          irq, hpc, msg, flush, flush_work, flush_interrupt_count, hlog,
          nsignals, owed,
          wopcm, ggtt_pin_bias, bias_init, objs, shared_data,
          shared_data_vaddr, last,
          log_vma, ads_vma, ggtt_guc, fault, lpc, lret, ltrace>>

sendVars  == <<doorbell, send_mutex, pc, act, idx, ret, status, elapsed, nwr, nring,
               strace, resp_at, resp_for>>
paramVars == <<ppc, pidx, ptrace, cfg>>
eventVars == <<irq, hpc, msg, flush, flush_work, flush_interrupt_count, hlog,
               nsignals, owed>>
allocVars == <<wopcm, ggtt_pin_bias, bias_init, objs, shared_data,
               shared_data_vaddr, last>>
lifeVars  == <<log_vma, ads_vma, ggtt_guc, fault, lpc, lret, ltrace>>

---------------------------------------------------------------------------
(* Bounds of the model *)

NumCtx == 2                 \* contexts calling intel_guc_send_mmio
MaxSignals == 4             \* events the GuC signals in one run of the model
MaxWopcm == 2               \* largest WOPCM size and GuC WOPCM base
MaxAddr == 3                \* highest GGTT address a region can be placed at
MaxObjs == 2                \* objects created in one run of the model
MaxLogLevel == 6            \* highest i915_modparams.guc_log_level tried

---------------------------------------------------------------------------
(* 32-bit words *)

RECURSIVE BitsFrom(_, _)
BitsFrom(n, k) ==
    IF n = 0 THEN {}
    ELSE (IF n % 2 = 1 THEN {k} ELSE {}) \cup BitsFrom(n \div 2, k + 1)

U32(n)      == BitsFrom(n, 0) \cap (0..31)
Shl(w, s)   == {b + s : b \in w} \cap (0..31)
Shr(w, s)   == {b - s : b \in w} \cap (0..31)
ZeroWord    == {}

---------------------------------------------------------------------------
(* Program constants *)

SOFT_SCRATCH_COUNT == 16
WaitTimeoutMs      == 10
EIO                == 5
ETIMEDOUT          == 110

\* INTEL_GUC_RECV_MASK is 0xF << 28; INTEL_GUC_STATUS(x) is (0xF << 28) | (x << 16)
INTEL_GUC_RECV_MASK      == Shl(U32(15), 28)
INTEL_GUC_STATUS(x)      == Shl(U32(15), 28) \cup Shl(U32(x), 16)
INTEL_GUC_STATUS_SUCCESS == INTEL_GUC_STATUS(0)

\* the response-ready test of the poll: (w & mask) == value
Ready(w) == (w \cap INTEL_GUC_RECV_MASK) = INTEL_GUC_RECV_MASK


Ctx        == 1..NumCtx
NoOwner    == 0
ParamsCtx  == NumCtx + 1         \* the context running intel_guc_init_params
HandlerCtx == NumCtx + 2         \* the context running the event handler
Holders    == Ctx \cup {ParamsCtx, HandlerCtx}
ScratchIdx == 0..(SOFT_SCRATCH_COUNT - 1)

\* SOFT_SCRATCH(n): the mmio offset of scratch register n, 0xc180 + n * 4
SOFT_SCRATCH(n) == 49536 + n * 4

\* the mmio offsets of the scratch registers
ScratchRegs == {SOFT_SCRATCH(n) : n \in ScratchIdx}

\* the register read by the event handler and by the warning of a failed send
EventReg == SOFT_SCRATCH(15)

\* guc->send_regs as set by intel_guc_init_send_regs:
\* base = i915_mmio_reg_offset(SOFT_SCRATCH(0)), count = SOFT_SCRATCH_COUNT - 1
send_regs == [base |-> SOFT_SCRATCH(0), count |-> SOFT_SCRATCH_COUNT - 1]

\* the three GEM_BUG_ONs of guc_send_reg(guc, i) let the call pass; i is a u32
guc_send_reg_asserts(i) ==
    /\ ~(send_regs.base = 0)
    /\ ~(send_regs.count = 0)
    /\ ~(i < 0 \/ i >= send_regs.count)

\* guc_send_reg(guc, i): _MMIO(guc->send_regs.base + 4 * i)
guc_send_reg(i) == send_regs.base + 4 * i

SendWindow == {guc_send_reg(i) : i \in 0..(send_regs.count - 1)}

---------------------------------------------------------------------------
(* Action arrays sent by the callers in this file *)

INTEL_GUC_ACTION_AUTHENTICATE_HUC == U32(16384)     \* 0x4000
INTEL_GUC_ACTION_ENTER_S_STATE    == U32(1281)      \* 0x501
INTEL_GUC_ACTION_SAMPLE_FORCEWAKE == U32(12293)     \* 0x3005
GUC_POWER_D1                      == U32(1)

\* intel_guc_sample_forcewake under WaRsDisableCoarsePowerGating: action[1] = 0
SampleForcewakeAction == <<INTEL_GUC_ACTION_SAMPLE_FORCEWAKE, ZeroWord>>
\* intel_guc_auth_huc(guc, rsa_offset) with rsa_offset = 0x1000
AuthHucAction == <<INTEL_GUC_ACTION_AUTHENTICATE_HUC, U32(4096)>>
\* intel_guc_suspend with the shared data page at GGTT offset 0x2000
SuspendAction == <<INTEL_GUC_ACTION_ENTER_S_STATE, GUC_POWER_D1, U32(8192)>>
\* a caller of intel_guc_send with a single action word
OneWordAction == <<U32(48)>>

\* a caller that fills the whole send window
FullWindowAction ==
    [k \in 1..send_regs.count |->
        IF k = 1 THEN INTEL_GUC_ACTION_SAMPLE_FORCEWAKE ELSE U32(k)]

\* a caller that passes one word more than the send window holds
OverlongAction ==
    [k \in 1..(send_regs.count + 1) |->
        IF k = 1 THEN INTEL_GUC_ACTION_SAMPLE_FORCEWAKE ELSE U32(k)]

ActionArrays == {OneWordAction, AuthHucAction, SuspendAction, FullWindowAction,
                 OverlongAction}

\* What the GuC may put into mailbox register 0 in answer to a doorbell:
\* the success status, an error status, or a word without the ready bits.
GucResponses == {INTEL_GUC_STATUS_SUCCESS, INTEL_GUC_STATUS(48), Shl(U32(1), 28)}

---------------------------------------------------------------------------
(* Initial state *)

NoWrite == [by |-> NoOwner, reg |-> -1, val |-> ZeroWord, locked |-> FALSE, awake |-> FALSE]

DefaultCfg == [gen |-> 9, guc_log_level |-> 0, enable_guc |-> 0,
               submission |-> FALSE, debug_gem |-> TRUE,
               log_flags |-> ZeroWord, ads |-> ZeroWord, pool |-> ZeroWord]

SendInit ==
    /\ scratch = [r \in ScratchRegs |-> ZeroWord]
    /\ doorbell = FALSE
    /\ send_mutex = NoOwner
    /\ fw = [h \in Holders |-> 0]
    /\ pc = [c \in Ctx |-> "idle"]
    /\ act = [c \in Ctx |-> <<>>]
    /\ idx = [c \in Ctx |-> 0]
    /\ ret = [c \in Ctx |-> 0]
    /\ status = [c \in Ctx |-> ZeroWord]
    /\ elapsed = [c \in Ctx |-> 0]
    /\ nwr = [c \in Ctx |-> <<>>]
    /\ nring = [c \in Ctx |-> 0]
    /\ strace = [c \in Ctx |-> <<>>]
    /\ wr = NoWrite
    /\ resp_at = -1
    /\ resp_for = NoOwner
    /\ ppc = "idle"
    /\ pidx = 0
    /\ ptrace = <<>>

EventInit ==
    /\ irq = FALSE
    /\ hpc = "idle"
    /\ msg = ZeroWord
    /\ flush = ZeroWord
    /\ flush_work = FALSE
    /\ flush_interrupt_count = 0
    /\ hlog = <<>>
    /\ nsignals = 0
    /\ owed = FALSE

NULL == 0

NoCall == [fn |-> "none", ret |-> 0, obj |-> NULL, made |-> NULL]

AllocInit ==
    /\ wopcm = [size |-> 0, guc_base |-> 0, probed |-> FALSE]
    /\ ggtt_pin_bias = 0
    /\ bias_init = FALSE
    /\ objs = <<>>
    /\ shared_data = NULL
    /\ shared_data_vaddr = FALSE
    /\ last = NoCall

LifeInit ==
    /\ log_vma = NULL
    /\ ads_vma = NULL
    /\ ggtt_guc = FALSE
    /\ fault = "none"
    /\ lpc = "idle"
    /\ lret = 0
    /\ ltrace = <<>>

Init == SendInit /\ cfg = DefaultCfg /\ EventInit /\ AllocInit /\ LifeInit

---------------------------------------------------------------------------
(* Register access *)

\* I915_WRITE(SOFT_SCRATCH(r), v) by holder `who`; wr records the write and
\* whether the writer owned send_mutex and held a forcewake reference.
HostWrite(who, r, v) ==
    /\ scratch' = [scratch EXCEPT ![r] = v]
    /\ wr' = [by |-> who, reg |-> r, val |-> v,
              locked |-> (send_mutex = who), awake |-> (fw[who] > 0)]

\* a step that accesses no scratch register from the host side
NoHostWrite == wr' = NoWrite

\* one entry of strace: a write, read or poll of guc_send_reg(guc, i), which is
\* the register at offset r, or the doorbell (no register of the window)
Acc(o, i, r) == [op |-> o, i |-> i, reg |-> r]

\* I915_READ / POSTING_READ of the scratch register at offset r by holder
\* `who`, writing nothing; a send records the read in its trace
HostRead(who, r) == NoHostWrite

---------------------------------------------------------------------------
(* intel_guc_send_mmio *)

\* guc->send is intel_guc_send_nop from intel_guc_init_early on; the driver
\* switches it to intel_guc_send_mmio once the parameter block is written and
\* the firmware runs.
SendIsMmio == ppc = "done"

\* SendCall with the mutex_lock left out: the call goes straight on
SendCall_SkipsLock(c, a) ==
    /\ ppc = "done"
    /\ pc[c] \in {"idle", "done"}
    /\ Len(a) # 0
    /\ ~(Len(a) > send_regs.count)
    /\ pc' = [pc EXCEPT ![c] = "fw_get"]
    /\ act' = [act EXCEPT ![c] = a]
    /\ idx' = [idx EXCEPT ![c] = 0]
    /\ ret' = [ret EXCEPT ![c] = 0]
    /\ status' = [status EXCEPT ![c] = ZeroWord]
    /\ elapsed' = [elapsed EXCEPT ![c] = 0]
    /\ nwr' = [nwr EXCEPT ![c] = [k \in 1..Len(a) |-> 0]]
    /\ nring' = [nring EXCEPT ![c] = 0]
    /\ NoHostWrite
    /\ strace' = [strace EXCEPT ![c] = <<>>]
    /\ UNCHANGED <<scratch, doorbell, send_mutex, fw, resp_at, resp_for,
                   paramVars, eventVars, allocVars, lifeVars>>

\* SendCall without GEM_BUG_ON(len > guc->send_regs.count)
SendCall_NoLenCheck(c, a) ==
    /\ SendIsMmio
    /\ pc[c] \in {"idle", "done"}
    /\ Len(a) # 0
    /\ pc' = [pc EXCEPT ![c] = "lock"]
    /\ act' = [act EXCEPT ![c] = a]
    /\ idx' = [idx EXCEPT ![c] = 0]
    /\ ret' = [ret EXCEPT ![c] = 0]
    /\ status' = [status EXCEPT ![c] = ZeroWord]
    /\ elapsed' = [elapsed EXCEPT ![c] = 0]
    /\ nwr' = [nwr EXCEPT ![c] = [k \in 1..Len(a) |-> 0]]
    /\ nring' = [nring EXCEPT ![c] = 0]
    /\ NoHostWrite
    /\ strace' = [strace EXCEPT ![c] = <<>>]
    /\ UNCHANGED <<scratch, doorbell, send_mutex, fw, resp_at, resp_for,
                   paramVars, eventVars, allocVars, lifeVars>>

\* entry: the two GEM_BUG_ONs on len, then the call waits for send_mutex
SendCall(c, a) ==
    /\ SendIsMmio
    /\ pc[c] \in {"idle", "done"}
    /\ Len(a) # 0
    /\ ~(Len(a) > send_regs.count)
    /\ pc' = [pc EXCEPT ![c] = "lock"]
    /\ act' = [act EXCEPT ![c] = a]
    /\ idx' = [idx EXCEPT ![c] = 0]
    /\ ret' = [ret EXCEPT ![c] = 0]
    /\ status' = [status EXCEPT ![c] = ZeroWord]
    /\ elapsed' = [elapsed EXCEPT ![c] = 0]
    /\ nwr' = [nwr EXCEPT ![c] = [k \in 1..Len(a) |-> 0]]
    /\ nring' = [nring EXCEPT ![c] = 0]
    /\ NoHostWrite
    /\ strace' = [strace EXCEPT ![c] = <<>>]
    /\ UNCHANGED <<scratch, doorbell, send_mutex, fw, resp_at, resp_for,
                   paramVars, eventVars, allocVars, lifeVars>>

\* SendLock that takes the mutex although another context owns it
SendLock_NoExclusion(c) ==
    /\ pc[c] = "lock"
    /\ send_mutex' = c
    /\ pc' = [pc EXCEPT ![c] = "fw_get"]
    /\ NoHostWrite
    /\ UNCHANGED <<scratch, doorbell, fw, act, idx, ret, status, elapsed,
                   nwr, nring, resp_at, resp_for,
                   strace, paramVars, eventVars, allocVars, lifeVars>>

\* mutex_lock(&guc->send_mutex)
SendLock(c) ==
    /\ pc[c] = "lock"
    /\ send_mutex = NoOwner
    /\ send_mutex' = c
    /\ pc' = [pc EXCEPT ![c] = "fw_get"]
    /\ NoHostWrite
    /\ UNCHANGED <<scratch, doorbell, fw, act, idx, ret, status, elapsed,
                   nwr, nring, resp_at, resp_for,
                   strace, paramVars, eventVars, allocVars, lifeVars>>

\* intel_uncore_forcewake_get(dev_priv, guc->send_regs.fw_domains)
SendFwGet(c) ==
    /\ pc[c] = "fw_get"
    /\ fw' = [fw EXCEPT ![c] = @ + 1]
    /\ idx' = [idx EXCEPT ![c] = 0]
    /\ pc' = [pc EXCEPT ![c] = "write"]
    /\ NoHostWrite
    /\ UNCHANGED <<scratch, doorbell, send_mutex, act, ret, status, elapsed,
                   nwr, nring, resp_at, resp_for,
                   strace, paramVars, eventVars, allocVars, lifeVars>>

\* for (i = 0; i < len; i++) I915_WRITE(guc_send_reg(guc, i), action[i]);
SendWrite(c) ==
    /\ pc[c] = "write"
    /\ idx[c] < Len(act[c])
    /\ guc_send_reg_asserts(idx[c])
    /\ HostWrite(c, guc_send_reg(idx[c]), act[c][idx[c] + 1])
    /\ nwr' = [nwr EXCEPT ![c][idx[c] + 1] = @ + 1]
    /\ idx' = [idx EXCEPT ![c] = @ + 1]
    /\ pc' = [pc EXCEPT ![c] = IF idx[c] + 1 < Len(act[c]) THEN "write" ELSE "posting"]
    /\ resp_for' = IF guc_send_reg(idx[c]) = guc_send_reg(0) THEN NoOwner ELSE resp_for
    /\ strace' = [strace EXCEPT ![c] = Append(@, Acc("write", idx[c], guc_send_reg(idx[c])))]
    /\ UNCHANGED <<doorbell, send_mutex, fw, act, ret, status, elapsed, nring,
                   resp_at, paramVars, eventVars, allocVars, lifeVars>>

\* SendPostingRead that reads back the first register of the window
SendPostingRead_FirstReg(c) ==
    /\ pc[c] = "posting"
    /\ guc_send_reg_asserts(0)
    /\ pc' = [pc EXCEPT ![c] = "notify"]
    /\ HostRead(c, guc_send_reg(0))
    /\ strace' = [strace EXCEPT ![c] = Append(@, Acc("read", 0, guc_send_reg(0)))]
    /\ UNCHANGED <<scratch, doorbell, send_mutex, fw, act, idx, ret, status,
                   elapsed, nwr, nring, resp_at, resp_for,
                   paramVars, eventVars, allocVars, lifeVars>>

\* POSTING_READ(guc_send_reg(guc, i - 1)): a read whose value is discarded
SendPostingRead(c) ==
    /\ pc[c] = "posting"
    /\ guc_send_reg_asserts(idx[c] - 1)
    /\ pc' = [pc EXCEPT ![c] = "notify"]
    /\ HostRead(c, guc_send_reg(idx[c] - 1))
    /\ strace' = [strace EXCEPT ![c] = Append(@, Acc("read", idx[c] - 1, guc_send_reg(idx[c] - 1)))]
    /\ UNCHANGED <<scratch, doorbell, send_mutex, fw, act, idx, ret, status,
                   elapsed, nwr, nring, resp_at, resp_for,
                   paramVars, eventVars, allocVars, lifeVars>>

\* intel_guc_notify(guc) -> gen8_guc_raise_irq:
\* I915_WRITE(GUC_SEND_INTERRUPT, GUC_SEND_TRIGGER)
SendNotify(c) ==
    /\ pc[c] = "notify"
    /\ doorbell' = TRUE
    /\ nring' = [nring EXCEPT ![c] = @ + 1]
    /\ elapsed' = [elapsed EXCEPT ![c] = 0]
    /\ pc' = [pc EXCEPT ![c] = "wait"]
    /\ resp_at' = IF Ready(scratch[guc_send_reg(0)]) THEN 0 ELSE -1
    /\ NoHostWrite
    /\ strace' = [strace EXCEPT ![c] = Append(@, Acc("ring", -1, -1))]
    /\ UNCHANGED <<scratch, send_mutex, fw, act, idx, ret, status, nwr, resp_for,
                   paramVars, eventVars, allocVars, lifeVars>>

\* the arguments of the wait with no slow timeout: only the busy-wait of
\* 10 us is made
SendWaitArgs_NoSlowWait ==
    [reg |-> guc_send_reg(0), mask |-> INTEL_GUC_RECV_MASK,
     value |-> INTEL_GUC_RECV_MASK, fast_timeout_us |-> 10,
     slow_timeout_ms |-> 0]

\* the arguments intel_guc_send_mmio passes to __intel_wait_for_register_fw:
\* guc_send_reg(guc, 0), INTEL_GUC_RECV_MASK, INTEL_GUC_RECV_MASK, 10, 10.
\* Time is counted in ms, so the busy-wait of fast_timeout_us takes none.
SendWaitArgs ==
    [reg |-> guc_send_reg(0), mask |-> INTEL_GUC_RECV_MASK,
     value |-> INTEL_GUC_RECV_MASK, fast_timeout_us |-> 10,
     slow_timeout_ms |-> WaitTimeoutMs]

\* __intel_wait_for_register_fw(dev_priv, guc_send_reg(guc, 0),
\*     INTEL_GUC_RECV_MASK, INTEL_GUC_RECV_MASK, 10, 10, &status):
\* polls until (reg & mask) == value or the timeout expires; the word last read
\* is stored in status, the result is 0 or -ETIMEDOUT.  One unsuccessful poll
\* before expiry lets one ms pass.
SendWait(c) ==
    /\ pc[c] = "wait"
    /\ guc_send_reg_asserts(0)
    /\ LET v == scratch[SendWaitArgs.reg] IN
       IF (v \cap SendWaitArgs.mask) = SendWaitArgs.value
       THEN /\ ret' = [ret EXCEPT ![c] = 0]
            /\ status' = [status EXCEPT ![c] = v]
            /\ pc' = [pc EXCEPT ![c] = "check"]
            /\ UNCHANGED elapsed
       ELSE IF elapsed[c] >= SendWaitArgs.slow_timeout_ms
       THEN /\ ret' = [ret EXCEPT ![c] = -ETIMEDOUT]
            /\ status' = [status EXCEPT ![c] = v]
            /\ pc' = [pc EXCEPT ![c] = "check"]
            /\ UNCHANGED elapsed
       ELSE /\ elapsed' = [elapsed EXCEPT ![c] = @ + 1]
            /\ UNCHANGED <<ret, status, pc>>
    /\ strace' = [strace EXCEPT ![c] = Append(@, Acc("poll", 0, SendWaitArgs.reg))]
    /\ HostRead(c, SendWaitArgs.reg)
    /\ UNCHANGED <<scratch, doorbell, send_mutex, fw, act, idx, nwr, nring,
                   resp_at, resp_for, paramVars, eventVars, allocVars, lifeVars>>

\* SendCheck that turns every failure into -EIO, the timeout included
SendCheck_AlwaysEIO(c) ==
    /\ pc[c] = "check"
    /\ ret' = [ret EXCEPT ![c] =
                 IF status[c] # INTEL_GUC_STATUS_SUCCESS THEN -EIO ELSE ret[c]]
    /\ pc' = [pc EXCEPT ![c] = "fw_put"]
    /\ NoHostWrite
    /\ UNCHANGED <<scratch, doorbell, send_mutex, fw, act, idx, status,
                   elapsed, nwr, nring, resp_at, resp_for,
                   strace, paramVars, eventVars, allocVars, lifeVars>>

\* SendCheck that returns from the failure branch, without the two releases
SendCheck_ReturnsOnFailure(c) ==
    /\ pc[c] = "check"
    /\ ret' = [ret EXCEPT ![c] =
                 IF status[c] # INTEL_GUC_STATUS_SUCCESS
                 THEN (IF ret[c] # -ETIMEDOUT THEN -EIO ELSE ret[c])
                 ELSE ret[c]]
    /\ pc' = [pc EXCEPT ![c] =
                 IF status[c] # INTEL_GUC_STATUS_SUCCESS THEN "done" ELSE "fw_put"]
    /\ NoHostWrite
    /\ UNCHANGED <<scratch, doorbell, send_mutex, fw, act, idx, status,
                   elapsed, nwr, nring, resp_at, resp_for,
                   strace, paramVars, eventVars, allocVars, lifeVars>>

\* SendCheck that repeats the exchange once after a failure
SendCheck_RetriesOnce(c) ==
    /\ pc[c] = "check"
    /\ ret' = [ret EXCEPT ![c] =
                 IF status[c] # INTEL_GUC_STATUS_SUCCESS
                 THEN (IF ret[c] # -ETIMEDOUT THEN -EIO ELSE ret[c])
                 ELSE ret[c]]
    /\ IF status[c] # INTEL_GUC_STATUS_SUCCESS /\ nring[c] < 2
       THEN /\ pc' = [pc EXCEPT ![c] = "write"]
            /\ idx' = [idx EXCEPT ![c] = 0]
       ELSE /\ pc' = [pc EXCEPT ![c] = "fw_put"]
            /\ UNCHANGED idx
    /\ NoHostWrite
    /\ UNCHANGED <<scratch, doorbell, send_mutex, fw, act, status,
                   elapsed, nwr, nring, resp_at, resp_for,
                   strace, paramVars, eventVars, allocVars, lifeVars>>

\* if (status != INTEL_GUC_STATUS_SUCCESS) { if (ret != -ETIMEDOUT) ret = -EIO;
\*     DRM_WARN(..., I915_READ(SOFT_SCRATCH(15))); }
SendCheck(c) ==
    /\ pc[c] = "check"
    /\ ret' = [ret EXCEPT ![c] =
                 IF status[c] # INTEL_GUC_STATUS_SUCCESS
                 THEN (IF ret[c] # -ETIMEDOUT THEN -EIO ELSE ret[c])
                 ELSE ret[c]]
    /\ pc' = [pc EXCEPT ![c] = "fw_put"]
    /\ IF status[c] # INTEL_GUC_STATUS_SUCCESS
       THEN HostRead(c, EventReg)
       ELSE NoHostWrite
    /\ UNCHANGED <<scratch, doorbell, send_mutex, fw, act, idx, status,
                   elapsed, nwr, nring, resp_at, resp_for,
                   strace, paramVars, eventVars, allocVars, lifeVars>>

\* intel_uncore_forcewake_put(dev_priv, guc->send_regs.fw_domains)
SendFwPut(c) ==
    /\ pc[c] = "fw_put"
    /\ fw' = [fw EXCEPT ![c] = @ - 1]
    /\ pc' = [pc EXCEPT ![c] = "unlock"]
    /\ NoHostWrite
    /\ UNCHANGED <<scratch, doorbell, send_mutex, act, idx, ret, status,
                   elapsed, nwr, nring, resp_at, resp_for,
                   strace, paramVars, eventVars, allocVars, lifeVars>>

\* SendUnlock that leaves the mutex locked when the call timed out
SendUnlock_NotOnTimeout(c) ==
    /\ pc[c] = "unlock"
    /\ send_mutex' = IF ret[c] = -ETIMEDOUT THEN send_mutex ELSE NoOwner
    /\ pc' = [pc EXCEPT ![c] = "done"]
    /\ act' = [act EXCEPT ![c] = <<>>]
    /\ idx' = [idx EXCEPT ![c] = 0]
    /\ status' = [status EXCEPT ![c] = ZeroWord]
    /\ elapsed' = [elapsed EXCEPT ![c] = 0]
    /\ nwr' = [nwr EXCEPT ![c] = <<>>]
    /\ nring' = [nring EXCEPT ![c] = 0]
    /\ resp_at' = -1
    /\ resp_for' = NoOwner
    /\ NoHostWrite
    /\ strace' = [strace EXCEPT ![c] = <<>>]
    /\ UNCHANGED <<scratch, doorbell, fw, ret,
                   paramVars, eventVars, allocVars, lifeVars>>

\* mutex_unlock(&guc->send_mutex); return ret;
\* Only ret outlives the call; the other locals go with the frame.
SendUnlock(c) ==
    /\ pc[c] = "unlock"
    /\ send_mutex' = NoOwner
    /\ pc' = [pc EXCEPT ![c] = "done"]
    /\ act' = [act EXCEPT ![c] = <<>>]
    /\ idx' = [idx EXCEPT ![c] = 0]
    /\ status' = [status EXCEPT ![c] = ZeroWord]
    /\ elapsed' = [elapsed EXCEPT ![c] = 0]
    /\ nwr' = [nwr EXCEPT ![c] = <<>>]
    /\ nring' = [nring EXCEPT ![c] = 0]
    /\ resp_at' = -1
    /\ resp_for' = NoOwner
    /\ NoHostWrite
    /\ strace' = [strace EXCEPT ![c] = <<>>]
    /\ UNCHANGED <<scratch, doorbell, fw, ret,
                   paramVars, eventVars, allocVars, lifeVars>>

---------------------------------------------------------------------------
(* The GuC side of the mailbox *)

\* context c has rung the doorbell and has not returned yet
Rung(c) == pc[c] \in {"wait", "check", "fw_put", "unlock"}

\* The firmware consumes the doorbell and answers in mailbox register 0.  It
\* may do so at any time after the doorbell, also after the host gave up, or
\* never.
GucRespond(w) ==
    /\ doorbell
    /\ doorbell' = FALSE
    /\ scratch' = [scratch EXCEPT ![guc_send_reg(0)] = w]
    /\ resp_for' = IF \E c \in Ctx : Rung(c)
                   THEN CHOOSE c \in Ctx : Rung(c)
                   ELSE NoOwner
    /\ resp_at' = IF \E c \in Ctx : pc[c] = "wait"
                  THEN (IF Ready(w)
                        THEN elapsed[CHOOSE c \in Ctx : pc[c] = "wait"]
                        ELSE -1)
                  ELSE IF (\E c \in Ctx : Rung(c)) /\ Ready(w) /\ resp_at = -1
                  THEN WaitTimeoutMs + 1
                  ELSE resp_at
    /\ NoHostWrite
    /\ UNCHANGED <<send_mutex, fw, pc, act, idx, ret, status, elapsed, nwr,
                   nring, strace, paramVars, eventVars, allocVars, lifeVars>>

---------------------------------------------------------------------------
(* intel_guc_init_params *)

GUC_CTL_CTXINFO     == 0
GUC_CTL_ARAT_HIGH   == 1
GUC_CTL_ARAT_LOW    == 2
GUC_CTL_DEVICE_INFO == 3
GUC_CTL_LOG_PARAMS  == 4
GUC_CTL_WA          == 6
GUC_CTL_FEATURE     == 7
GUC_CTL_DEBUG       == 8
GUC_CTL_MAX_DWORDS  == SOFT_SCRATCH_COUNT - 2

PAGE_SHIFT                == 12
GUC_CTL_GT_TYPE_SHIFT     == 0
GUC_CTL_CORE_FAMILY_SHIFT == 7
GUC_CTL_BASE_ADDR_SHIFT   == 12
GUC_CTL_CTXNUM_IN16_SHIFT == 0
GUC_LOG_VERBOSITY_SHIFT   == 0
GUC_LOG_VERBOSITY_MAX     == 3
GUC_ADS_ADDR_SHIFT        == 11
GUC_MAX_STAGE_DESCRIPTORS == 1024

GUC_CTL_WA_UK_BY_DRIVER    == Shl(U32(1), 3)
GUC_CTL_VCS2_ENABLED       == Shl(U32(1), 0)
GUC_CTL_KERNEL_SUBMISSIONS == Shl(U32(1), 1)
GUC_CTL_DISABLE_SCHEDULER  == Shl(U32(1), 4)
GUC_LOG_DISABLED           == Shl(U32(1), 6)
GUC_ADS_ENABLED            == Shl(U32(1), 9)
GUC_CORE_FAMILY_GEN9       == U32(12)
GUC_CORE_FAMILY_UNKNOWN    == U32(32767)

get_gt_type == ZeroWord

get_core_family(gen) ==
    IF gen = 9 THEN GUC_CORE_FAMILY_GEN9 ELSE GUC_CORE_FAMILY_UNKNOWN

\* the two GEM_BUG_ONs of get_log_verbosity_flags let the call pass
get_log_verbosity_asserts(f) ==
    IF f.guc_log_level > 0
    THEN ~(f.guc_log_level - 1 > GUC_LOG_VERBOSITY_MAX)
    ELSE ~(f.enable_guc < 0)

\* get_log_verbosity_flags that takes the level itself for the verbosity
get_log_verbosity_flags_NoOffset(level) ==
    IF level > 0
    THEN Shl(U32(level), GUC_LOG_VERBOSITY_SHIFT)
    ELSE GUC_LOG_DISABLED

\* the value get_log_verbosity_flags returns when it returns: a GEM_BUG_ON
\* compiled out changes nothing of it
get_log_verbosity_flags(level) ==
    IF level > 0
    THEN Shl(U32(level - 1), GUC_LOG_VERBOSITY_SHIFT)
    ELSE GUC_LOG_DISABLED

\* GucParams that leaves GUC_CTL_DISABLE_SCHEDULER set under GuC submission
GucParams_SchedulerOff(f) ==
    LET z  == [i \in 0..(GUC_CTL_MAX_DWORDS - 1) |-> ZeroWord]
        p1 == [z EXCEPT
                 ![GUC_CTL_DEVICE_INFO] =
                     @ \cup Shl(get_gt_type, GUC_CTL_GT_TYPE_SHIFT)
                       \cup Shl(get_core_family(f.gen), GUC_CTL_CORE_FAMILY_SHIFT),
                 ![GUC_CTL_ARAT_HIGH] = ZeroWord,
                 ![GUC_CTL_ARAT_LOW] = U32(100000000),
                 ![GUC_CTL_WA] = @ \cup GUC_CTL_WA_UK_BY_DRIVER,
                 ![GUC_CTL_FEATURE] =
                     @ \cup GUC_CTL_DISABLE_SCHEDULER \cup GUC_CTL_VCS2_ENABLED,
                 ![GUC_CTL_LOG_PARAMS] = f.log_flags,
                 ![GUC_CTL_DEBUG] = get_log_verbosity_flags(f.guc_log_level)]
        ads       == Shr(f.ads, PAGE_SHIFT)
        pgs       == Shr(f.pool, PAGE_SHIFT)
        ctx_in_16 == U32(GUC_MAX_STAGE_DESCRIPTORS \div 16)
    IN  IF f.submission
        THEN [p1 EXCEPT
                 ![GUC_CTL_DEBUG] =
                     @ \cup Shl(ads, GUC_ADS_ADDR_SHIFT) \cup GUC_ADS_ENABLED,
                 ![GUC_CTL_CTXINFO] =
                     Shl(pgs, GUC_CTL_BASE_ADDR_SHIFT)
                       \cup Shl(ctx_in_16, GUC_CTL_CTXNUM_IN16_SHIFT),
                 ![GUC_CTL_FEATURE] =
                     @ \cup GUC_CTL_KERNEL_SUBMISSIONS]
        ELSE p1

\* params[] as built by lines 247-288, for the static facts f
GucParams(f) ==
    LET z  == [i \in 0..(GUC_CTL_MAX_DWORDS - 1) |-> ZeroWord]
        p1 == [z EXCEPT
                 ![GUC_CTL_DEVICE_INFO] =
                     @ \cup Shl(get_gt_type, GUC_CTL_GT_TYPE_SHIFT)
                       \cup Shl(get_core_family(f.gen), GUC_CTL_CORE_FAMILY_SHIFT),
                 ![GUC_CTL_ARAT_HIGH] = ZeroWord,
                 ![GUC_CTL_ARAT_LOW] = U32(100000000),
                 ![GUC_CTL_WA] = @ \cup GUC_CTL_WA_UK_BY_DRIVER,
                 ![GUC_CTL_FEATURE] =
                     @ \cup GUC_CTL_DISABLE_SCHEDULER \cup GUC_CTL_VCS2_ENABLED,
                 ![GUC_CTL_LOG_PARAMS] = f.log_flags,
                 ![GUC_CTL_DEBUG] = get_log_verbosity_flags(f.guc_log_level)]
        ads       == Shr(f.ads, PAGE_SHIFT)
        pgs       == Shr(f.pool, PAGE_SHIFT)
        ctx_in_16 == U32(GUC_MAX_STAGE_DESCRIPTORS \div 16)
    IN  IF f.submission
        THEN [p1 EXCEPT
                 ![GUC_CTL_DEBUG] =
                     @ \cup Shl(ads, GUC_ADS_ADDR_SHIFT) \cup GUC_ADS_ENABLED,
                 ![GUC_CTL_CTXINFO] =
                     Shl(pgs, GUC_CTL_BASE_ADDR_SHIFT)
                       \cup Shl(ctx_in_16, GUC_CTL_CTXNUM_IN16_SHIFT),
                 ![GUC_CTL_FEATURE] =
                     (@ \cup GUC_CTL_KERNEL_SUBMISSIONS) \ GUC_CTL_DISABLE_SCHEDULER]
        ELSE p1

\* one entry of ptrace: a forcewake get or put, or the write of v to the
\* scratch register at offset r
Did(o, r, v) == [op |-> o, reg |-> r, val |-> v]

\* params[] is built: a GEM_BUG_ON of get_log_verbosity_flags that fires in a
\* build with CONFIG_DRM_I915_DEBUG_GEM stops the call there; otherwise
\* intel_uncore_forcewake_get(dev_priv, FORCEWAKE_BLITTER)
ParamsFwGet ==
    /\ ppc = "idle"
    /\ IF cfg.debug_gem /\ ~get_log_verbosity_asserts(cfg)
       THEN /\ ppc' = "bug"
            /\ UNCHANGED <<fw, ptrace>>
       ELSE /\ fw' = [fw EXCEPT ![ParamsCtx] = @ + 1]
            /\ ppc' = "write0"
            /\ ptrace' = Append(ptrace, Did("get", -1, ZeroWord))
    /\ NoHostWrite
    /\ UNCHANGED <<scratch, pidx, cfg, sendVars, eventVars, allocVars, lifeVars>>

\* I915_WRITE(SOFT_SCRATCH(0), 0)
ParamsWrite0 ==
    /\ ppc = "write0"
    /\ HostWrite(ParamsCtx, SOFT_SCRATCH(0), ZeroWord)
    /\ ptrace' = Append(ptrace, Did("write", SOFT_SCRATCH(0), ZeroWord))
    /\ pidx' = 0
    /\ ppc' = "loop"
    /\ UNCHANGED <<fw, cfg, sendVars, eventVars, allocVars, lifeVars>>

\* ParamsWrite that puts params[i] into SOFT_SCRATCH(i)
ParamsWrite_NoOffset ==
    /\ ppc = "loop"
    /\ pidx < GUC_CTL_MAX_DWORDS
    /\ HostWrite(ParamsCtx, SOFT_SCRATCH(pidx), GucParams(cfg)[pidx])
    /\ ptrace' = Append(ptrace, Did("write", SOFT_SCRATCH(pidx), GucParams(cfg)[pidx]))
    /\ pidx' = pidx + 1
    /\ ppc' = IF pidx + 1 < GUC_CTL_MAX_DWORDS THEN "loop" ELSE "fw_put"
    /\ UNCHANGED <<fw, cfg, sendVars, eventVars, allocVars, lifeVars>>

\* for (i = 0; i < GUC_CTL_MAX_DWORDS; i++) I915_WRITE(SOFT_SCRATCH(1 + i), params[i])
ParamsWrite ==
    /\ ppc = "loop"
    /\ pidx < GUC_CTL_MAX_DWORDS
    /\ HostWrite(ParamsCtx, SOFT_SCRATCH(1 + pidx), GucParams(cfg)[pidx])
    /\ ptrace' = Append(ptrace, Did("write", SOFT_SCRATCH(1 + pidx), GucParams(cfg)[pidx]))
    /\ pidx' = pidx + 1
    /\ ppc' = IF pidx + 1 < GUC_CTL_MAX_DWORDS THEN "loop" ELSE "fw_put"
    /\ UNCHANGED <<fw, cfg, sendVars, eventVars, allocVars, lifeVars>>

\* intel_uncore_forcewake_put(dev_priv, FORCEWAKE_BLITTER)
ParamsFwPut ==
    /\ ppc = "fw_put"
    /\ fw' = [fw EXCEPT ![ParamsCtx] = @ - 1]
    /\ ppc' = "done"
    /\ ptrace' = Append(ptrace, Did("put", -1, ZeroWord))
    /\ NoHostWrite
    /\ UNCHANGED <<scratch, pidx, cfg, sendVars, eventVars, allocVars, lifeVars>>

\* The configurations intel_guc_init_params is run with: the module
\* parameters, the build, and the addresses of the regions allocated before.
\* USES_GUC_SUBMISSION is bit 0 of enable_guc.
Cfgs ==
    {f \in [gen : {9, 10},
            guc_log_level : 0..MaxLogLevel,
            enable_guc : {-1, 0, 1},
            submission : BOOLEAN,
            debug_gem : BOOLEAN,
            log_flags : {ZeroWord, U32(5)},
            ads : {U32(12288), {31, 13}},
            pool : {U32(20480), {31, 30, 12}}] :
        f.submission <=> f.enable_guc = 1}

ParamInit == SendInit /\ cfg \in Cfgs /\ EventInit /\ AllocInit /\ LifeInit

ParamNext ==
    \/ ParamsFwGet
    \/ ParamsWrite0
    \/ ParamsWrite
    \/ ParamsFwPut

\* intel_guc_init_params alone, for every configuration
ParamSpec == ParamInit /\ [][ParamNext]_vars

---------------------------------------------------------------------------
(* The mailbox and the parameter block together *)

\* every step but the entry into intel_guc_send_mmio
SendSteps ==
    \/ \E c \in Ctx : SendLock(c)
    \/ \E c \in Ctx : SendFwGet(c)
    \/ \E c \in Ctx : SendWrite(c)
    \/ \E c \in Ctx : SendPostingRead(c)
    \/ \E c \in Ctx : SendNotify(c)
    \/ \E c \in Ctx : SendWait(c)
    \/ \E c \in Ctx : SendCheck(c)
    \/ \E c \in Ctx : SendFwPut(c)
    \/ \E c \in Ctx : SendUnlock(c)
    \/ \E w \in GucResponses : GucRespond(w)
    \/ ParamsFwGet
    \/ ParamsWrite0
    \/ ParamsWrite
    \/ ParamsFwPut

Next ==
    \/ \E c \in Ctx, a \in ActionArrays : SendCall(c, a)
    \/ SendSteps

Spec == Init /\ [][Next]_vars

\* A context that runs, and a mutex that is fair to its waiters: every step
\* inside the call is taken once it can be, and a waiter that can take the
\* mutex again and again gets it.  The callers need not call and the GuC need
\* not answer.
SendFairness ==
    \A c \in Ctx :
        /\ WF_vars(SendFwGet(c))
        /\ WF_vars(SendWrite(c))
        /\ WF_vars(SendPostingRead(c))
        /\ WF_vars(SendNotify(c))
        /\ WF_vars(SendWait(c))
        /\ WF_vars(SendCheck(c))
        /\ WF_vars(SendFwPut(c))
        /\ WF_vars(SendUnlock(c))
        /\ SF_vars(SendLock(c))

\* The same steps with every caller sending the three-word suspend request
\* (what a call does after its entry does not depend on the words it sends).
SuspendNext ==
    \/ \E c \in Ctx : SendCall(c, SuspendAction)
    \/ SendSteps

FairSpec == Init /\ [][SuspendNext]_vars /\ SendFairness

---------------------------------------------------------------------------
(* intel_guc_to_host_event_handler *)

INTEL_GUC_RECV_MSG_CRASH_DUMP_POSTED == Shl(U32(1), 1)
INTEL_GUC_RECV_MSG_FLUSH_LOG_BUFFER  == Shl(U32(1), 3)

HandledBits ==
    INTEL_GUC_RECV_MSG_CRASH_DUMP_POSTED \cup INTEL_GUC_RECV_MSG_FLUSH_LOG_BUFFER

\* The bits the GuC may raise in the message register: the two handled ones
\* and bit 0, which the handler does not know.
EventBits == {0, 1, 3}

\* the statements of the if (flush) branch in program order, with the clear
\* after the queue_work
HandlerBody_QueueFirst == <<"queue", "clear", "count">>

\* the statements of the if (flush) branch in program order
HandlerBody == <<"clear", "queue", "count">>

\* where the handler is after statement s of the branch
AfterStep(s) ==
    LET k == CHOOSE i \in 1..Len(HandlerBody) : HandlerBody[i] = s
    IN  IF k < Len(HandlerBody) THEN HandlerBody[k + 1] ELSE "idle"

\* The GuC sets bit b of the message register and raises the GuC-to-host
\* interrupt.
GucSignal(b) ==
    /\ nsignals < MaxSignals
    /\ nsignals' = nsignals + 1
    /\ scratch' = [scratch EXCEPT ![EventReg] = @ \cup {b}]
    /\ irq' = TRUE
    /\ owed' = (owed \/ b \in HandledBits)
    /\ NoHostWrite
    /\ UNCHANGED <<hpc, msg, flush, flush_work, flush_interrupt_count, hlog,
                   fw, sendVars, paramVars, allocVars, lifeVars>>

\* The interrupt is taken: the handler is called; a further interrupt raised
\* while it runs stays pending and calls it again.
IrqDispatch ==
    /\ irq
    /\ hpc = "idle"
    /\ irq' = FALSE
    /\ hpc' = "read"
    /\ msg' = ZeroWord
    /\ flush' = ZeroWord
    /\ hlog' = <<>>
    /\ NoHostWrite
    /\ UNCHANGED <<scratch, flush_work, flush_interrupt_count, nsignals, owed,
                   fw, sendVars, paramVars, allocVars, lifeVars>>

\* HandlerRead that goes on to queue_work without the clearing write
HandlerRead_SkipsClear ==
    /\ hpc = "read"
    /\ msg' = scratch[EventReg]
    /\ flush' = scratch[EventReg] \cap HandledBits
    /\ hpc' = IF scratch[EventReg] \cap HandledBits # {} THEN "queue" ELSE "idle"
    /\ HostRead(HandlerCtx, EventReg)
    /\ UNCHANGED <<scratch, irq, flush_work, flush_interrupt_count, hlog,
                   nsignals, owed, fw, sendVars, paramVars, allocVars, lifeVars>>

\* msg = I915_READ(SOFT_SCRATCH(15)); flush = msg & (CRASH_DUMP_POSTED |
\* FLUSH_LOG_BUFFER); if (flush) ... else return
HandlerRead ==
    /\ hpc = "read"
    /\ msg' = scratch[EventReg]
    /\ flush' = scratch[EventReg] \cap HandledBits
    /\ hpc' = IF scratch[EventReg] \cap HandledBits # {} THEN HandlerBody[1] ELSE "idle"
    /\ HostRead(HandlerCtx, EventReg)
    /\ UNCHANGED <<scratch, irq, flush_work, flush_interrupt_count, hlog,
                   nsignals, owed, fw, sendVars, paramVars, allocVars, lifeVars>>

\* HandlerClear that writes only while no send holds send_mutex
HandlerClear_UnderLock ==
    /\ hpc = "clear"
    /\ send_mutex = NoOwner
    /\ HostWrite(HandlerCtx, EventReg, msg \ flush)
    /\ hlog' = Append(hlog, "clear")
    /\ hpc' = AfterStep("clear")
    /\ UNCHANGED <<irq, msg, flush, flush_work, flush_interrupt_count,
                   nsignals, owed, fw, sendVars, paramVars, allocVars, lifeVars>>

\* I915_WRITE(SOFT_SCRATCH(15), msg & ~flush)
HandlerClear ==
    /\ hpc = "clear"
    /\ HostWrite(HandlerCtx, EventReg, msg \ flush)
    /\ hlog' = Append(hlog, "clear")
    /\ hpc' = AfterStep("clear")
    /\ UNCHANGED <<irq, msg, flush, flush_work, flush_interrupt_count,
                   nsignals, owed, fw, sendVars, paramVars, allocVars, lifeVars>>

\* queue_work(guc->log.runtime.flush_wq, &guc->log.runtime.flush_work)
HandlerQueue ==
    /\ hpc = "queue"
    /\ flush_work' = TRUE
    /\ owed' = FALSE
    /\ hlog' = Append(hlog, "queue")
    /\ hpc' = AfterStep("queue")
    /\ NoHostWrite
    /\ UNCHANGED <<scratch, irq, msg, flush, flush_interrupt_count, nsignals,
                   fw, sendVars, paramVars, allocVars, lifeVars>>

\* guc->log.flush_interrupt_count++ (a u32; the model stays far below 2^32)
HandlerCount ==
    /\ hpc = "count"
    /\ flush_interrupt_count' = flush_interrupt_count + 1
    /\ hlog' = Append(hlog, "count")
    /\ hpc' = AfterStep("count")
    /\ NoHostWrite
    /\ UNCHANGED <<scratch, irq, msg, flush, flush_work, nsignals, owed,
                   fw, sendVars, paramVars, allocVars, lifeVars>>

\* The worker of the ordered queue flush_wq takes flush_work off the queue.
FlushWorkRun ==
    /\ flush_work
    /\ flush_work' = FALSE
    /\ NoHostWrite
    /\ UNCHANGED <<scratch, irq, hpc, msg, flush, flush_interrupt_count, hlog,
                   nsignals, owed, fw, sendVars, paramVars, allocVars, lifeVars>>

EventNext ==
    \/ \E b \in EventBits : GucSignal(b)
    \/ IrqDispatch
    \/ HandlerRead
    \/ HandlerClear
    \/ HandlerQueue
    \/ HandlerCount
    \/ FlushWorkRun

EventSpec == Init /\ [][EventNext]_vars

\* A raised interrupt is dispatched and the handler, once called, runs to its
\* end.  The GuC need not signal and the worker need not run.
EventFairness ==
    /\ WF_vars(IrqDispatch)
    /\ WF_vars(HandlerRead)
    /\ WF_vars(HandlerClear)
    /\ WF_vars(HandlerQueue)
    /\ WF_vars(HandlerCount)

EventFairSpec == EventSpec /\ EventFairness

---------------------------------------------------------------------------
(* The event handler beside an exchange in flight *)

\* the context that sends while the handler runs
Sender == 1

\* One caller sending the suspend request again and again, the GuC answering
\* or not, and the GuC signalling events that the handler takes, in every
\* interleaving: the interrupt is not held off by send_mutex or forcewake.
\* The flush worker, which touches neither the registers nor the send state,
\* is left out.
ConcNext ==
    \/ SendCall(Sender, SuspendAction)
    \/ SendSteps
    \/ \E b \in EventBits : GucSignal(b)
    \/ IrqDispatch
    \/ HandlerRead
    \/ HandlerClear
    \/ HandlerQueue
    \/ HandlerCount

ConcSpec == Init /\ [][ConcNext]_vars

\* one caller alone, with every action array a caller may pass
CallNext ==
    \/ \E a \in ActionArrays : SendCall(Sender, a)
    \/ SendSteps

CallSpec == Init /\ [][CallNext]_vars

---------------------------------------------------------------------------
(* GGTT pin bias, intel_guc_allocate_vma, guc_shared_data_create *)

ENOMEM == 12
ENOSPC == 28
Errnos == {ENOMEM, ENOSPC}

Addr == 0..MaxAddr

\* An object of the heap: its reference count, whether it has a VMA in the
\* GGTT, the VMA's pin count and address, whether it was pinned after
\* ggtt_pin_bias was initialised, its kernel mappings, the number of
\* i915_gem_object_put calls made on it, and who holds the pointer to it.
NewObj == [refs |-> 1, vma |-> FALSE, pin |-> 0, addr |-> -1, after |-> FALSE,
           maps |-> 0, puts |-> 0, owner |-> "none"]

\* What the callees of one intel_guc_allocate_vma call do: the first of
\* them to fail and its error, or none failing and the address the pin chose.
AllocOutcomes ==
    {[at |-> f, err |-> e, addr |-> 0] :
        f \in {"create", "instance", "pin"}, e \in Errnos}
    \cup {[at |-> "none", err |-> 0, addr |-> a] : a \in Addr}

\* the pin flags without PIN_OFFSET_BIAS and the bias
PinFlags_NoBias(bias) == [global |-> TRUE, offset_bias |-> FALSE, offset |-> 0]

\* PIN_GLOBAL | PIN_OFFSET_BIAS | guc->ggtt_pin_bias
PinFlags(bias) == [global |-> TRUE, offset_bias |-> TRUE, offset |-> bias]

\* i915_vma_pin can place a VMA at address a under the flags: a is free, and
\* at or above the offset when PIN_OFFSET_BIAS is set.
PinAllowed(h, flags, a) ==
    /\ flags.offset_bias => a >= flags.offset
    /\ \A o \in 1..Len(h) : h[o].pin > 0 => h[o].addr # a

\* i915_gem_object_put(obj): drops a reference; the object with no reference
\* left is freed.
i915_gem_object_put(h, o) ==
    [h EXCEPT ![o].refs = @ - 1, ![o].puts = @ + 1]

\* i915_vma_unpin_and_release(&vma): unpins the VMA and drops the reference
\* to its object.
i915_vma_unpin_and_release(h, o) ==
    i915_gem_object_put([h EXCEPT ![o].pin = @ - 1], o)

\* the err: label of intel_guc_allocate_vma returning without the put
AllocErr_NoPut(h, o) == h

\* err: i915_gem_object_put(obj); return vma;
AllocErr(h, o) == i915_gem_object_put(h, o)

\* intel_guc_allocate_vma(guc, size) on heap h when its callees behave as
\* out: the heap it leaves, the error it returns (0 for a VMA), the VMA's
\* object and the object it created (NULL for none).
intel_guc_allocate_vma(h, out) ==
    LET o == Len(h) + 1
        created == Append(h, NewObj)
        instanced == [created EXCEPT ![o].vma = TRUE]
        flags == PinFlags(ggtt_pin_bias)
        pinned == [instanced EXCEPT ![o].pin = 1, ![o].addr = out.addr,
                                    ![o].after = bias_init]
    IN  IF out.at = "create"
        THEN [heap |-> h, err |-> -out.err, obj |-> NULL, made |-> NULL]
        ELSE IF out.at = "instance"
        THEN [heap |-> AllocErr(created, o), err |-> -out.err,
              obj |-> NULL, made |-> o]
        ELSE IF out.at = "pin"
        THEN [heap |-> AllocErr(instanced, o), err |-> -out.err,
              obj |-> NULL, made |-> o]
        ELSE [heap |-> pinned, err |-> 0, obj |-> o, made |-> o]

\* the callees can behave as out in a call made now
AllocPossible(h, out) ==
    /\ out.at # "create" => Len(h) < MaxObjs
    /\ out.at = "none" => PinAllowed(h, PinFlags(ggtt_pin_bias), out.addr)

\* intel_wopcm_init has partitioned the WOPCM.
WopcmInit(sz, base) ==
    /\ ~wopcm.probed
    /\ wopcm' = [size |-> sz, guc_base |-> base, probed |-> TRUE]
    /\ NoHostWrite
    /\ UNCHANGED <<ggtt_pin_bias, bias_init, objs, shared_data,
                   shared_data_vaddr, last,
                   scratch, fw, sendVars, paramVars, eventVars, lifeVars>>

intel_guc_init_ggtt_pin_bias ==
    /\ wopcm.size # 0                       \* GEM_BUG_ON(!i915->wopcm.size)
    /\ ~(wopcm.size < wopcm.guc_base)       \* GEM_BUG_ON(size < guc.base)
    /\ ggtt_pin_bias' = wopcm.size - wopcm.guc_base
    /\ bias_init' = TRUE
    /\ last' = [fn |-> "init_ggtt_pin_bias", ret |-> 0, obj |-> NULL,
                made |-> NULL]
    /\ NoHostWrite
    /\ UNCHANGED <<wopcm, objs, shared_data, shared_data_vaddr,
                   scratch, fw, sendVars, paramVars, eventVars, lifeVars>>

\* A caller outside this file (the log, the ADS, a client) allocates a VMA
\* and keeps the pointer it gets.
AllocateVma(out) ==
    /\ AllocPossible(objs, out)
    /\ LET r == intel_guc_allocate_vma(objs, out)
       IN  /\ objs' = IF r.err = 0
                      THEN [r.heap EXCEPT ![r.obj].owner = "caller"]
                      ELSE r.heap
           /\ last' = [fn |-> "allocate_vma", ret |-> r.err, obj |-> r.obj,
                       made |-> r.made]
    /\ NoHostWrite
    /\ UNCHANGED <<wopcm, ggtt_pin_bias, bias_init, shared_data,
                   shared_data_vaddr,
                   scratch, fw, sendVars, paramVars, eventVars, lifeVars>>

\* guc_shared_data_create; maperr is the error of i915_gem_object_pin_map,
\* 0 when it maps the object.
guc_shared_data_create(out, maperr) ==
    /\ shared_data = NULL
    /\ AllocPossible(objs, out)
    /\ LET r == intel_guc_allocate_vma(objs, out)
       IN  IF r.err # 0
           THEN /\ maperr = 0
                /\ objs' = r.heap
                /\ last' = [fn |-> "shared_data_create", ret |-> r.err,
                            obj |-> NULL, made |-> r.made]
                /\ UNCHANGED <<shared_data, shared_data_vaddr>>
           ELSE IF maperr # 0
           THEN /\ objs' = i915_vma_unpin_and_release(r.heap, r.obj)
                /\ last' = [fn |-> "shared_data_create", ret |-> -maperr,
                            obj |-> NULL, made |-> r.made]
                /\ UNCHANGED <<shared_data, shared_data_vaddr>>
           ELSE /\ objs' = [r.heap EXCEPT ![r.obj].maps = @ + 1,
                                          ![r.obj].owner = "shared_data"]
                /\ shared_data' = r.obj
                /\ shared_data_vaddr' = TRUE
                /\ last' = [fn |-> "shared_data_create", ret |-> 0,
                            obj |-> r.obj, made |-> r.made]
    /\ NoHostWrite
    /\ UNCHANGED <<wopcm, ggtt_pin_bias, bias_init,
                   scratch, fw, sendVars, paramVars, eventVars>>

AllocNext ==
    \/ \E sz \in 0..MaxWopcm, base \in 0..MaxWopcm : WopcmInit(sz, base)
    \/ intel_guc_init_ggtt_pin_bias
    \/ \E out \in AllocOutcomes : AllocateVma(out)
    \/ \E out \in AllocOutcomes, maperr \in {0} \cup Errnos :
            guc_shared_data_create(out, maperr) /\ UNCHANGED lifeVars

AllocSpec == Init /\ [][AllocNext]_vars

---------------------------------------------------------------------------
(* intel_guc_init, intel_guc_fini, guc_shared_data_destroy *)

\* What guc->shared_data->obj does when guc->shared_data is NULL: the read
\* of page 0 faults and the kernel oopses, or the read returns whatever lies
\* there and the callee is handed a pointer that is no object.
NullDerefOutcomes == {"oops", "wild"}

\* i915_gem_object_unpin_map(obj): drops a kernel mapping of the object.
i915_gem_object_unpin_map(h, o) == [h EXCEPT ![o].maps = @ - 1]

\* the pointer *p_vma as i915_vma_unpin_and_release leaves it, and the heap
\* after it: nothing happens for a NULL pointer.
ReleaseVma(h, o) ==
    IF o = NULL THEN h
    ELSE [i915_vma_unpin_and_release(h, o) EXCEPT ![o].owner = "none"]

\* the heap has room for the log and the ADS besides the objects of the
\* direct allocation calls
LifePossible(h, out) ==
    /\ out.at # "create" => Len(h) < MaxObjs + 2
    /\ out.at = "none" => PinAllowed(h, PinFlags(ggtt_pin_bias), out.addr)

\* guc_shared_data_destroy; ub is what the dereference of a NULL
\* guc->shared_data leads to.
guc_shared_data_destroy(ub) ==
    /\ IF shared_data # NULL
       THEN /\ objs' = ReleaseVma(
                          i915_gem_object_unpin_map(objs, shared_data),
                          shared_data)
            /\ shared_data' = NULL
            /\ UNCHANGED fault
       ELSE /\ fault' = ub
            /\ UNCHANGED <<objs, shared_data>>
    /\ last' = [fn |-> "shared_data_destroy", ret |-> 0, obj |-> NULL,
                made |-> NULL]
    /\ NoHostWrite
    /\ UNCHANGED <<wopcm, ggtt_pin_bias, bias_init, shared_data_vaddr,
                   scratch, fw, sendVars, paramVars, eventVars>>

\* an entry of ltrace: a function entered or called, and what it returned
Called(f, r) == [call |-> f, ret |-> r]

\* the label intel_guc_init jumps to when intel_guc_ads_create fails, were it
\* err_shared
AdsFailLabel_SkipsLog == "err_shared"

\* ret = intel_guc_ads_create(guc); if (ret) goto err_log;
AdsFailLabel == "err_log"

\* intel_guc_init is called on a GuC that holds no region.
GucInitCall ==
    /\ lpc = "idle"
    /\ fault = "none"
    /\ shared_data = NULL /\ log_vma = NULL /\ ads_vma = NULL /\ ~ggtt_guc
    /\ lpc' = "shared_create"
    /\ lret' = 0
    /\ ltrace' = <<Called("init", 0)>>
    /\ NoHostWrite
    /\ UNCHANGED <<log_vma, ads_vma, ggtt_guc, fault,
                   scratch, fw, sendVars, paramVars, eventVars, allocVars>>

\* ret = guc_shared_data_create(guc); if (ret) return ret;
InitSharedData(out, maperr) ==
    /\ lpc = "shared_create"
    /\ guc_shared_data_create(out, maperr)
    /\ lret' = last'.ret
    /\ lpc' = IF last'.ret # 0 THEN "idle" ELSE "log_create"
    /\ ltrace' = Append(ltrace, Called("shared_data_create", last'.ret))
    /\ UNCHANGED <<log_vma, ads_vma, ggtt_guc, fault>>

\* ret = intel_guc_log_create(guc); if (ret) goto err_shared;
InitLogCreate(out) ==
    /\ lpc = "log_create"
    /\ LifePossible(objs, out)
    /\ LET r == intel_guc_allocate_vma(objs, out)
       IN  /\ objs' = IF r.err = 0
                      THEN [r.heap EXCEPT ![r.obj].owner = "log"]
                      ELSE r.heap
           /\ log_vma' = r.obj
           /\ lret' = r.err
           /\ lpc' = IF r.err # 0 THEN "err_shared" ELSE "ads_create"
    /\ ltrace' = Append(ltrace, Called("log_create", lret'))
    /\ NoHostWrite
    /\ UNCHANGED <<wopcm, ggtt_pin_bias, bias_init, shared_data,
                   shared_data_vaddr, last, ads_vma, ggtt_guc, fault,
                   scratch, fw, sendVars, paramVars, eventVars>>

\* ret = intel_guc_ads_create(guc); if (ret) goto err_log;
InitAdsCreate(out) ==
    /\ lpc = "ads_create"
    /\ LifePossible(objs, out)
    /\ LET r == intel_guc_allocate_vma(objs, out)
       IN  /\ objs' = IF r.err = 0
                      THEN [r.heap EXCEPT ![r.obj].owner = "ads"]
                      ELSE r.heap
           /\ ads_vma' = r.obj
           /\ lret' = r.err
           /\ lpc' = IF r.err # 0 THEN AdsFailLabel ELSE "enable"
    /\ ltrace' = Append(ltrace, Called("ads_create", lret'))
    /\ NoHostWrite
    /\ UNCHANGED <<wopcm, ggtt_pin_bias, bias_init, shared_data,
                   shared_data_vaddr, last, log_vma, ggtt_guc, fault,
                   scratch, fw, sendVars, paramVars, eventVars>>

\* i915_ggtt_enable_guc(dev_priv); return 0;
InitEnable ==
    /\ lpc = "enable"
    /\ ggtt_guc' = TRUE
    /\ lret' = 0
    /\ lpc' = "idle"
    /\ ltrace' = Append(ltrace, Called("ggtt_enable", 0))
    /\ NoHostWrite
    /\ UNCHANGED <<log_vma, ads_vma, fault,
                   scratch, fw, sendVars, paramVars, eventVars, allocVars>>

\* err_log: intel_guc_log_destroy(guc);
InitErrLog ==
    /\ lpc = "err_log"
    /\ objs' = ReleaseVma(objs, log_vma)
    /\ log_vma' = NULL
    /\ lpc' = "err_shared"
    /\ ltrace' = Append(ltrace, Called("log_destroy", 0))
    /\ NoHostWrite
    /\ UNCHANGED <<wopcm, ggtt_pin_bias, bias_init, shared_data,
                   shared_data_vaddr, last, ads_vma, ggtt_guc, fault, lret,
                   scratch, fw, sendVars, paramVars, eventVars>>

\* err_shared: guc_shared_data_destroy(guc); return ret;
InitErrShared(ub) ==
    /\ lpc = "err_shared"
    /\ guc_shared_data_destroy(ub)
    /\ lpc' = IF fault' = "oops" THEN "oops" ELSE "idle"
    /\ ltrace' = Append(ltrace, Called("shared_data_destroy", 0))
    /\ UNCHANGED <<log_vma, ads_vma, ggtt_guc, lret>>

\* intel_guc_fini is called after an intel_guc_init has returned.
GucFiniCall ==
    /\ lpc = "idle"
    /\ fault = "none"
    /\ ltrace # <<>> /\ ltrace[1].call = "init"
    /\ lpc' = "disable"
    /\ ltrace' = <<Called("fini", 0)>>
    /\ NoHostWrite
    /\ UNCHANGED <<log_vma, ads_vma, ggtt_guc, fault, lret,
                   scratch, fw, sendVars, paramVars, eventVars, allocVars>>

\* i915_ggtt_disable_guc(dev_priv);
FiniDisable ==
    /\ lpc = "disable"
    /\ ggtt_guc' = FALSE
    /\ lpc' = "ads_destroy"
    /\ ltrace' = Append(ltrace, Called("ggtt_disable", 0))
    /\ NoHostWrite
    /\ UNCHANGED <<log_vma, ads_vma, fault, lret,
                   scratch, fw, sendVars, paramVars, eventVars, allocVars>>

\* intel_guc_ads_destroy(guc);
FiniAdsDestroy ==
    /\ lpc = "ads_destroy"
    /\ objs' = ReleaseVma(objs, ads_vma)
    /\ ads_vma' = NULL
    /\ lpc' = "log_destroy"
    /\ ltrace' = Append(ltrace, Called("ads_destroy", 0))
    /\ NoHostWrite
    /\ UNCHANGED <<wopcm, ggtt_pin_bias, bias_init, shared_data,
                   shared_data_vaddr, last, log_vma, ggtt_guc, fault, lret,
                   scratch, fw, sendVars, paramVars, eventVars>>

\* intel_guc_log_destroy(guc);
FiniLogDestroy ==
    /\ lpc = "log_destroy"
    /\ objs' = ReleaseVma(objs, log_vma)
    /\ log_vma' = NULL
    /\ lpc' = "shared_destroy"
    /\ ltrace' = Append(ltrace, Called("log_destroy", 0))
    /\ NoHostWrite
    /\ UNCHANGED <<wopcm, ggtt_pin_bias, bias_init, shared_data,
                   shared_data_vaddr, last, ads_vma, ggtt_guc, fault, lret,
                   scratch, fw, sendVars, paramVars, eventVars>>

\* guc_shared_data_destroy(guc); the function returns.
FiniSharedDestroy(ub) ==
    /\ lpc = "shared_destroy"
    /\ guc_shared_data_destroy(ub)
    /\ lpc' = IF fault' = "oops" THEN "oops" ELSE "idle"
    /\ ltrace' = Append(ltrace, Called("shared_data_destroy", 0))
    /\ UNCHANGED <<log_vma, ads_vma, ggtt_guc, lret>>

LifeNext ==
    \/ GucInitCall
    \/ \E out \in AllocOutcomes, maperr \in {0} \cup Errnos :
            InitSharedData(out, maperr)
    \/ \E out \in AllocOutcomes : InitLogCreate(out)
    \/ \E out \in AllocOutcomes : InitAdsCreate(out)
    \/ InitEnable
    \/ InitErrLog
    \/ \E ub \in NullDerefOutcomes : InitErrShared(ub)
    \/ GucFiniCall
    \/ FiniDisable
    \/ FiniAdsDestroy
    \/ FiniLogDestroy
    \/ \E ub \in NullDerefOutcomes : FiniSharedDestroy(ub)

LifeSpec == Init /\ [][LifeNext]_vars

---------------------------------------------------------------------------
(* Properties of the mailbox exchange *)

\* between mutex_lock and mutex_unlock
InExchange(c) ==
    pc[c] \in {"fw_get", "write", "posting", "notify", "wait", "check",
               "fw_put", "unlock"}


Outside(c) == pc[c] \in {"idle", "lock", "done"}

\* C1: at most one context is between mutex_lock and mutex_unlock, that
\* context owns send_mutex, and a mailbox write is never made while another
\* context is inside its exchange.
C1_MutualExclusion ==
    /\ \A c1, c2 \in Ctx : InExchange(c1) /\ InExchange(c2) => c1 = c2
    /\ \A c \in Ctx : InExchange(c) => send_mutex = c
    /\ wr.by \in Ctx => \A c \in Ctx \ {wr.by} : ~InExchange(c)

C1_Witness ==
    \E c1, c2 \in Ctx : c1 # c2 /\ pc[c1] = "wait" /\ pc[c2] = "lock"

\* C2: the value a send returns is 0, -EIO or -ETIMEDOUT; it is 0 exactly when
\* the word read has the ready bits and equals the success status, -ETIMEDOUT
\* exactly when the ready bits did not appear before the wait gave up, and
\* -EIO exactly when they appeared with another status.
C2_OutcomeClassified ==
    \A c \in Ctx :
        /\ pc[c] \in {"fw_put", "unlock", "done"} => ret[c] \in {0, -EIO, -ETIMEDOUT}
        /\ pc[c] \in {"fw_put", "unlock"} =>
            /\ ret[c] = 0 <=> (Ready(status[c]) /\ status[c] = INTEL_GUC_STATUS_SUCCESS)
            /\ ret[c] = -ETIMEDOUT <=> ~Ready(status[c])
            /\ ret[c] = -EIO <=> (Ready(status[c]) /\ status[c] # INTEL_GUC_STATUS_SUCCESS)

C2_Witness ==
    \E c1, c2 \in Ctx :
        /\ pc[c1] = "done" /\ ret[c1] = -ETIMEDOUT
        /\ pc[c2] = "unlock" /\ ret[c2] = -EIO /\ Len(act[c2]) = send_regs.count

\* C3: a send holds the forcewake reference only while it owns send_mutex,
\* gives the reference back before it unlocks, and has given back both when
\* it returns, whatever the outcome; so the mutex is free whenever no call is
\* inside its exchange.
C3_GuaranteedRelease ==
    /\ \A c \in Ctx :
        /\ fw[c] \in {0, 1}
        /\ fw[c] > 0 => send_mutex = c
        /\ Outside(c) => fw[c] = 0 /\ send_mutex # c
        /\ pc[c] = "unlock" => fw[c] = 0 /\ send_mutex = c
    /\ (\A c \in Ctx : Outside(c)) => send_mutex = NoOwner

C3_Witness ==
    \E c1, c2 \in Ctx :
        /\ c1 # c2
        /\ pc[c1] = "done" /\ ret[c1] = -ETIMEDOUT
        /\ pc[c2] = "wait" /\ send_mutex = c2 /\ fw[c2] = 1

\* C4: a call that owns the mutex eventually returns, also when the GuC never
\* sets the ready bits, and a caller waiting for the mutex eventually owns it.
C4_Termination ==
    \A c \in Ctx :
        /\ InExchange(c) ~> (pc[c] = "done")
        /\ (pc[c] = "lock") ~> (send_mutex = c)

C4_Witness ==
    \E c1, c2 \in Ctx :
        /\ pc[c1] = "wait" /\ elapsed[c1] = WaitTimeoutMs
        /\ ~Ready(scratch[guc_send_reg(0)])
        /\ pc[c2] = "lock"

\* C5: one call writes each of its action words once and rings the doorbell
\* once, also when it fails: no word is ever written twice, the doorbell is
\* never rung twice, and from the wait on all words are written and the
\* doorbell is rung.
C5_NoInternalRetry ==
    \A c \in Ctx :
        /\ nring[c] \in {0, 1}
        /\ \A k \in DOMAIN nwr[c] : nwr[c][k] \in {0, 1}
        /\ pc[c] \in {"notify", "wait", "check", "fw_put", "unlock"} =>
            /\ DOMAIN nwr[c] = 1..Len(act[c])
            /\ \A k \in 1..Len(act[c]) : nwr[c][k] = 1
        /\ pc[c] \in {"wait", "check", "fw_put", "unlock"} => nring[c] = 1
        /\ pc[c] \in {"lock", "fw_get", "write", "posting", "notify"} => nring[c] = 0

C5_Witness ==
    \E c \in Ctx :
        /\ pc[c] = "unlock" /\ ret[c] = -ETIMEDOUT
        /\ Len(act[c]) = 3 /\ nring[c] = 1

\* C6 as stated: every host write to a register of the send window is made by
\* a context that owns send_mutex.
C6_EveryWindowWriteLocked ==
    wr.reg \in SendWindow => wr.locked

\* C6 amended: every mailbox write of intel_guc_send_mmio is made inside the
\* send window by the owner of send_mutex, with the forcewake reference held;
\* intel_guc_init_params writes the same registers with its forcewake
\* reference but without the mutex.
C6_SendWritesLocked ==
    /\ wr.by \in Ctx => wr.reg \in SendWindow /\ wr.locked /\ wr.awake
    /\ wr.by = ParamsCtx => wr.reg \in SendWindow /\ ~wr.locked /\ wr.awake

C6_Witness ==
    /\ wr.by \in Ctx
    /\ wr.reg = guc_send_reg(2)
    /\ scratch[SOFT_SCRATCH(0)] # ZeroWord

---------------------------------------------------------------------------
(* Properties of the event handler *)

C8_NoLostFlush == owed ~> ~owed

\* a handled event is signalled between the handler's read and its clearing
\* write
C8_Witness ==
    /\ hpc = "clear"
    /\ owed
    /\ irq
    /\ scratch[EventReg] \cap HandledBits # msg \cap HandledBits

\* C17: a write of the handler leaves every unhandled bit of the event register
\* as it stands in the register, also when the GuC has set bits since the
\* handler read it; and a handler run whose read finds no handled bit returns
\* at once, with no register written, no work queued and
\* flush_interrupt_count unchanged.
C17_HandlerFrame ==
    [][/\ wr'.by = HandlerCtx =>
              scratch'[EventReg] \ HandledBits = scratch[EventReg] \ HandledBits
       /\ (hpc = "read" /\ hpc' # "read" /\ scratch[EventReg] \cap HandledBits = {}) =>
              /\ hpc' = "idle"
              /\ wr' = NoWrite
              /\ UNCHANGED <<scratch, flush_work, flush_interrupt_count>>]_vars


---------------------------------------------------------------------------
(* Properties of the allocator *)

\* C9: once intel_guc_init_ggtt_pin_bias has run, ggtt_pin_bias is
\* wopcm.size - wopcm.guc.base; the call goes through for every pair with
\* size > 0 and size >= base; and every VMA that intel_guc_allocate_vma
\* returned after it is pinned at an address at or above ggtt_pin_bias.
C9_PinBias ==
    /\ bias_init =>
            /\ wopcm.size > 0
            /\ wopcm.size >= wopcm.guc_base
            /\ ggtt_pin_bias = wopcm.size - wopcm.guc_base
    /\ (wopcm.size > 0 /\ wopcm.size >= wopcm.guc_base) =>
            ENABLED intel_guc_init_ggtt_pin_bias
    /\ \A o \in 1..Len(objs) :
            (objs[o].pin > 0 /\ objs[o].after) =>
                objs[o].addr \in Addr /\ objs[o].addr >= ggtt_pin_bias

\* a VMA is returned after a non-zero bias was set, with an address below the
\* bias left free
C9_Witness ==
    /\ bias_init
    /\ ggtt_pin_bias = MaxWopcm
    /\ last.fn = "allocate_vma"
    /\ last.ret = 0
    /\ objs[last.obj].after
    /\ objs[last.obj].addr = ggtt_pin_bias

Released(o) ==
    /\ objs[o].refs = 0
    /\ objs[o].puts = 1
    /\ objs[o].pin = 0
    /\ objs[o].maps = 0
    /\ objs[o].owner = "none"

Held(o) ==
    /\ objs[o].refs = 1
    /\ objs[o].puts = 0
    /\ objs[o].vma
    /\ objs[o].pin = 1
    /\ objs[o].owner # "none"

\* C10: intel_guc_allocate_vma returns either a pinned VMA or an error with
\* the object it created, if any, put exactly once and not pinned;
\* guc_shared_data_create that fails, in the allocation or in the mapping,
\* leaves its object put exactly once, unpinned and unmapped, and
\* guc->shared_data unset; no object is ever left referenced without an owner.
C10_AllocationUnwinding ==
    /\ \A o \in 1..Len(objs) : Released(o) \/ Held(o)
    /\ (last.fn \in {"allocate_vma", "shared_data_create"} /\ last.ret = 0) =>
            last.obj # NULL /\ Held(last.obj)
    /\ (last.fn \in {"allocate_vma", "shared_data_create"} /\ last.ret # 0) =>
            /\ last.ret < 0
            /\ last.obj = NULL
            /\ last.made # NULL => Released(last.made)
    /\ (last.fn = "shared_data_create" /\ last.ret # 0) =>
            shared_data = NULL /\ ~shared_data_vaddr
    /\ shared_data # NULL =>
            Held(shared_data) /\ objs[shared_data].maps = 1

\* guc_shared_data_create has failed in the mapping after an allocation that
\* succeeded, and an allocation has failed in the pin
C10_Witness ==
    /\ last.fn = "shared_data_create"
    /\ last.ret = -ENOMEM
    /\ last.made # NULL
    /\ objs[last.made].vma
    /\ objs[last.made].addr \in Addr
    /\ \E o \in 1..Len(objs) :
            o # last.made /\ objs[o].vma /\ objs[o].addr = -1 /\ objs[o].refs = 0

---------------------------------------------------------------------------
(* Properties of one exchange in time *)

\* the call of context c has left the poll and its return value is final
Settled(c) == pc[c] \in {"fw_put", "unlock"}

\* C12: with time counted in ms from the doorbell, a response that sets the
\* ready bits of mailbox register 0 strictly before WaitTimeoutMs makes the
\* call return by the status word (0 for the success status, -EIO for any
\* other), a response that comes after the poll gave up, or none at all,
\* makes it return -ETIMEDOUT, and the poll waits WaitTimeoutMs in all
\* before it gives up and never longer.
C12_TimeoutBoundary ==
    \A c \in Ctx :
        /\ pc[c] \in {"wait", "check"} \cup {"fw_put", "unlock"} =>
               elapsed[c] \in 0..WaitTimeoutMs
        /\ Settled(c) =>
               /\ resp_at \in 0..(WaitTimeoutMs - 1) =>
                      /\ Ready(status[c])
                      /\ ret[c] = IF status[c] = INTEL_GUC_STATUS_SUCCESS
                                  THEN 0 ELSE -EIO
               /\ (resp_at > WaitTimeoutMs \/ resp_at = -1) =>
                      ret[c] = -ETIMEDOUT
               /\ ret[c] = -ETIMEDOUT => elapsed[c] = WaitTimeoutMs

\* a response in the last millisecond before the limit was taken
C12_Witness ==
    \E c \in Ctx : /\ Settled(c)
                    /\ resp_at = WaitTimeoutMs - 1
                    /\ ret[c] = 0
                    /\ status[c] = INTEL_GUC_STATUS_SUCCESS

\* C20: a call returns 0 only if the word in mailbox register 0 that it took
\* for its response was written by the GuC in answer to the doorbell of that
\* same call, and is the success status; a response the GuC gave to an earlier
\* doorbell is never taken.
C20_OwnResponse ==
    \A c \in Ctx :
        (Settled(c) /\ ret[c] = 0) =>
            resp_for = c /\ status[c] = INTEL_GUC_STATUS_SUCCESS

---------------------------------------------------------------------------
(* Properties of the steps of one exchange *)

\* what a call with the action array a does up to and with the doorbell
SendTrace(a) ==
    [k \in 1..Len(a) |-> Acc("write", k - 1, guc_send_reg(k - 1))]
      \o <<Acc("read", Len(a) - 1, guc_send_reg(Len(a) - 1)), Acc("ring", -1, -1)>>

\* C14: one call writes action words 0..len-1 into mailbox registers 0..len-1
\* in increasing order, then reads back register len-1, then rings the
\* doorbell, and polls register 0 only after that: the doorbell is rung
\* exactly when all of this has been done, and every later access of the call
\* that is recorded is a poll of register 0.
C14_StepOrdering ==
    \A c \in Ctx :
        LET t == strace[c]
            e == SendTrace(act[c])
        IN  /\ Len(t) <= Len(e) => t = SubSeq(e, 1, Len(t))
            /\ Len(t) > Len(e) =>
                   /\ SubSeq(t, 1, Len(e)) = e
                   /\ \A k \in (Len(e) + 1)..Len(t) :
                          t[k] = Acc("poll", 0, guc_send_reg(0))
            /\ nring[c] = 1 <=> (act[c] # <<>> /\ Len(t) >= Len(e))
            /\ Settled(c) => Len(t) > Len(e)
            /\ wr.by = c => /\ t[Len(t)] = Acc("write", Len(t) - 1, wr.reg)
                            /\ wr.val = act[c][Len(t)]

C14_Witness ==
    \E c \in Ctx : /\ Settled(c)
                    /\ Len(act[c]) = 3
                    /\ Len(strace[c]) >= 7
                    /\ strace[c][4] = Acc("read", 2, guc_send_reg(2))

\* C15: send_regs.base is nonzero and send_regs.count is positive; a call in
\* progress has 1 <= len <= send_regs.count, and every index it has passed or
\* is about to pass to guc_send_reg (the writes, the read-back, the poll)
\* passes the three assertions and names a register of the window.
C15_WindowBounds ==
    /\ send_regs.base # 0
    /\ send_regs.count > 0
    /\ \A c \in Ctx :
        /\ pc[c] \notin {"idle", "done"} =>
               1 <= Len(act[c]) /\ Len(act[c]) <= send_regs.count
        /\ \A k \in 1..Len(strace[c]) :
               strace[c][k].op # "ring" =>
                   /\ guc_send_reg_asserts(strace[c][k].i)
                   /\ strace[c][k].i < send_regs.count
                   /\ strace[c][k].reg \in SendWindow
        /\ pc[c] = "write" => guc_send_reg_asserts(idx[c])
        /\ pc[c] = "posting" => guc_send_reg_asserts(idx[c] - 1)
        /\ pc[c] = "wait" => guc_send_reg_asserts(0)

\* a call that fills the whole window has written its last register
C15_Witness ==
    \E c \in Ctx :
        /\ pc[c] = "wait"
        /\ Len(act[c]) = send_regs.count
        /\ strace[c][send_regs.count] =
               Acc("write", send_regs.count - 1, SOFT_SCRATCH(SOFT_SCRATCH_COUNT - 2))
        /\ strace[c][Len(strace[c])] = Acc("poll", 0, SOFT_SCRATCH(0))

---------------------------------------------------------------------------
(* Properties of the parameter block write *)

\* what one call of intel_guc_init_params does for the configuration f
ParamsTrace(f) ==
    LET params == GucParams(f) IN
    <<Did("get", -1, ZeroWord), Did("write", SOFT_SCRATCH(0), ZeroWord)>>
      \o [i \in 1..GUC_CTL_MAX_DWORDS |-> Did("write", SOFT_SCRATCH(i), params[i - 1])]
      \o <<Did("put", -1, ZeroWord)>>

\* C13: one call of intel_guc_init_params takes the forcewake reference,
\* writes 0 to scratch register 0, then params[0..GUC_CTL_MAX_DWORDS-1] once
\* each and in index order to scratch registers 1..GUC_CTL_MAX_DWORDS, then
\* drops the reference once; each of its writes is made with the reference
\* held.
C13_ParamsUnderGuard ==
    /\ LET all == ParamsTrace(cfg) IN
         /\ Len(ptrace) <= Len(all)
         /\ ptrace = SubSeq(all, 1, Len(ptrace))
         /\ ppc = "done" => ptrace = all
    /\ fw[ParamsCtx] = IF ppc \in {"write0", "loop", "fw_put"} THEN 1 ELSE 0
    /\ wr.by = ParamsCtx => wr.awake /\ ptrace[Len(ptrace)] = Did("write", wr.reg, wr.val)

C13_Witness ==
    /\ ppc = "done"
    /\ Len(ptrace) = GUC_CTL_MAX_DWORDS + 3
    /\ ptrace[GUC_CTL_MAX_DWORDS + 2].reg = SOFT_SCRATCH(GUC_CTL_MAX_DWORDS)

\* params[k] as the call has left it in its scratch register
Written(k) == scratch[SOFT_SCRATCH(1 + k)]

\* the bits of a word from bit n up, and below bit n
FieldFrom(w, n) == Shr(w, n)
FieldBelow(w, n) == w \cap (0..(n - 1))

\* C18: after intel_guc_init_params, under GuC submission the feature word has
\* GUC_CTL_KERNEL_SUBMISSIONS set and GUC_CTL_DISABLE_SCHEDULER clear, the debug
\* word has GUC_ADS_ENABLED and the page number of the ADS region from
\* GUC_ADS_ADDR_SHIFT up, and the context-info word has the page number of the
\* descriptor pool from GUC_CTL_BASE_ADDR_SHIFT up and
\* GUC_MAX_STAGE_DESCRIPTORS / 16 below; without it the feature word has
\* GUC_CTL_DISABLE_SCHEDULER set and GUC_CTL_KERNEL_SUBMISSIONS clear, the
\* context-info word is 0 and the debug word is the log verbosity flags alone.
C18_SubmissionGating ==
    ppc = "done" =>
        IF cfg.submission
        THEN /\ GUC_CTL_KERNEL_SUBMISSIONS \subseteq Written(GUC_CTL_FEATURE)
             /\ GUC_CTL_DISABLE_SCHEDULER \cap Written(GUC_CTL_FEATURE) = {}
             /\ GUC_ADS_ENABLED \subseteq Written(GUC_CTL_DEBUG)
             /\ FieldFrom(Written(GUC_CTL_DEBUG), GUC_ADS_ADDR_SHIFT) =
                    FieldFrom(cfg.ads, PAGE_SHIFT)
             /\ FieldFrom(Written(GUC_CTL_CTXINFO), GUC_CTL_BASE_ADDR_SHIFT) =
                    FieldFrom(cfg.pool, PAGE_SHIFT)
             /\ FieldBelow(Written(GUC_CTL_CTXINFO), GUC_CTL_BASE_ADDR_SHIFT) =
                    U32(GUC_MAX_STAGE_DESCRIPTORS \div 16)
        ELSE /\ GUC_CTL_DISABLE_SCHEDULER \subseteq Written(GUC_CTL_FEATURE)
             /\ GUC_CTL_KERNEL_SUBMISSIONS \cap Written(GUC_CTL_FEATURE) = {}
             /\ Written(GUC_CTL_CTXINFO) = ZeroWord
             /\ Written(GUC_CTL_DEBUG) = get_log_verbosity_flags(cfg.guc_log_level)

C18_Witness ==
    /\ ppc = "done"
    /\ cfg.submission
    /\ cfg.ads = {31, 13}
    /\ Written(GUC_CTL_DEBUG) = {30, 12, 9}
    /\ Written(GUC_CTL_CTXINFO) = {31, 30, 12, 6}

\* the verbosity field of the debug word
VerbosityField(w) ==
    w \cap Shl(U32(GUC_LOG_VERBOSITY_MAX), GUC_LOG_VERBOSITY_SHIFT)

---------------------------------------------------------------------------
(* Properties of the region lifecycle *)

\* C11: guc_shared_data_destroy called after a failed guc_shared_data_create
\* (as intel_guc_fini does after a failed intel_guc_init) does not operate on
\* a region that does not exist: no NULL pointer is dereferenced, and nothing
\* is put or unpinned a second time.
C11_ReleaseAfterFailedAllocate ==
    /\ fault = "none"
    /\ \A o \in 1..Len(objs) :
            objs[o].puts <= 1 /\ objs[o].pin >= 0 /\ objs[o].maps >= 0

Calls(t) == [i \in 1..Len(t) |-> t[i].call]

InitOrder ==
    <<"init", "shared_data_create", "log_create", "ads_create", "ggtt_enable">>

FiniOrder ==
    <<"fini", "ggtt_disable", "ads_destroy", "log_destroy",
      "shared_data_destroy">>

Returned(f) == lpc = "idle" /\ ltrace # <<>> /\ ltrace[1].call = f

NoRegion == shared_data = NULL /\ log_vma = NULL /\ ads_vma = NULL

\* C16: intel_guc_init creates the shared data, the log and the ADS in this
\* order and then enables the GGTT notification; when creation k fails it
\* destroys the regions created before it in reverse order, returns the error
\* of the failing creation, and leaves no region and the notification off;
\* intel_guc_fini disables the notification, then destroys the ADS, the log
\* and the shared data in this order; at no time does the ADS exist without
\* the log, or the log without the shared data.
C16_RegionLifecycle ==
    /\ (Returned("init") /\ lret = 0) =>
            /\ Calls(ltrace) = InitOrder
            /\ ggtt_guc
            /\ \A o \in {shared_data, log_vma, ads_vma} : o # NULL /\ Held(o)
            /\ Cardinality({shared_data, log_vma, ads_vma}) = 3
    /\ (Returned("init") /\ lret # 0) =>
            /\ Calls(ltrace) \in
                 { <<"init", "shared_data_create">>,
                   <<"init", "shared_data_create", "log_create",
                     "shared_data_destroy">>,
                   <<"init", "shared_data_create", "log_create", "ads_create",
                     "log_destroy", "shared_data_destroy">> }
            /\ \E i \in 1..Len(ltrace) :
                    /\ ltrace[i].ret = lret
                    /\ ltrace[i].ret < 0
                    /\ \A j \in 1..Len(ltrace) : j # i => ltrace[j].ret = 0
            /\ NoRegion
            /\ ~ggtt_guc
            /\ \A o \in 1..Len(objs) : Released(o)
    /\ (ltrace # <<>> /\ ltrace[1].call = "init") =>
            \/ lret # 0
            \/ /\ Len(ltrace) <= Len(InitOrder)
               /\ Calls(ltrace) = SubSeq(InitOrder, 1, Len(ltrace))
    /\ (ltrace # <<>> /\ ltrace[1].call = "fini") =>
            /\ Len(ltrace) <= Len(FiniOrder)
            /\ Calls(ltrace) = SubSeq(FiniOrder, 1, Len(ltrace))
            /\ Len(ltrace) >= 2 => ~ggtt_guc
    /\ Returned("fini") =>
            /\ Calls(ltrace) = FiniOrder
            /\ NoRegion
            /\ \A o \in 1..Len(objs) : Released(o)
    /\ ads_vma # NULL => log_vma # NULL
    /\ log_vma # NULL => shared_data # NULL
    /\ ggtt_guc => ads_vma # NULL

\* intel_guc_init has returned the error of a failed intel_guc_ads_create
\* after the shared data and the log were created
C16_Witness ==
    /\ Returned("init")
    /\ lret = -ENOSPC
    /\ Len(ltrace) = 6
    /\ ltrace[4] = Called("ads_create", -ENOSPC)
    /\ Len(objs) >= 3

---------------------------------------------------------------------------
(* Properties of the handler beside an exchange *)

\* the return value intel_guc_send_mmio derives from the word w its poll read last
SendResult(w) ==
    IF ~Ready(w) THEN -ETIMEDOUT
    ELSE IF w = INTEL_GUC_STATUS_SUCCESS THEN 0 ELSE -EIO

\* C21: the handler never owns send_mutex and writes only SOFT_SCRATCH(15),
\* which is no register of the send window SOFT_SCRATCH(0..count-1); every
\* step of the handler, the interrupt and the flush worker leaves the state of
\* every send and the registers of the window as they are; so with the handler
\* running the mailbox holds the action words of the call in flight (register
\* 0 its first word or what the GuC put there), the poll takes what register 0
\* holds, and the return value follows from that word alone; and each step of
\* the handler can be taken whoever holds send_mutex.
C21_HandlerBesideSend ==
    /\ [](/\ send_mutex # HandlerCtx
          /\ EventReg \notin SendWindow
          /\ SendWindow = {SOFT_SCRATCH(n) : n \in 0..(SOFT_SCRATCH_COUNT - 2)}
          /\ wr.by = HandlerCtx =>
                wr.reg = EventReg /\ wr.reg \notin SendWindow /\ ~wr.locked
          /\ \A c \in Ctx :
                /\ pc[c] \in {"posting", "notify"} =>
                      \/ scratch[guc_send_reg(0)] = act[c][1]
                      \/ scratch[guc_send_reg(0)] \in GucResponses
                /\ pc[c] \in {"posting", "notify", "wait", "check", "fw_put", "unlock"} =>
                      \A k \in 2..Len(act[c]) :
                          scratch[guc_send_reg(k - 1)] = act[c][k]
                /\ Settled(c) => ret[c] = SendResult(status[c])
          /\ (irq /\ hpc = "idle") => ENABLED IrqDispatch
          /\ hpc = "read" => ENABLED HandlerRead
          /\ hpc = "clear" => ENABLED HandlerClear
          /\ hpc = "queue" => ENABLED HandlerQueue
          /\ hpc = "count" => ENABLED HandlerCount)
    /\ [][/\ eventVars' # eventVars =>
                /\ UNCHANGED <<sendVars, fw>>
                /\ \A r \in SendWindow : scratch'[r] = scratch[r]
          /\ \A c \in Ctx :
                (pc[c] = "wait" /\ pc'[c] = "check") =>
                    status'[c] = scratch[guc_send_reg(0)]]_vars

\* the handler has cleared the event register while a send holds send_mutex
\* and polls for its response
C21_Witness ==
    /\ pc[Sender] = "wait"
    /\ send_mutex = Sender
    /\ elapsed[Sender] > 0
    /\ wr.by = HandlerCtx
    /\ hpc = "queue"

=============================================================================
